---------------------------- MODULE Spec2Model ----------------------------
(* Model of the Alpine package-index tooling of visualizer.py:            *)
(*   AlpinePackageParser.parse_package_index   (index text -> index)      *)
(*   AlpinePackageParser.extract_dependencies  (record -> names)          *)
(*   DependencyFetcher.get_direct_dependencies (lookup by name)           *)
(* Text is a sequence of one-character strings; a dict is a function on   *)
(* its keys; the index, whose iteration order the lookup depends on, is a *)
(* sequence of [key, data] entries in insertion order.                    *)
EXTENDS Naturals, Sequences, FiniteSets, TLC

VARIABLES
    pc,               \* position in the operation being run
    content,          \* parse_package_index: the index text
    lines,            \* content.splitlines()
    i,                \* index of the line the for loop is at
    packages,         \* the index being built / returned
    current_package,  \* the record being accumulated
    package_name,     \* get_direct_dependencies: requested name
    target_package,   \* <<>> for None, <<data>> for a record
    error,            \* <<>> or the DependencyError raised
    package_data,     \* extract_dependencies: its argument
    tokens,           \* deps_str.split() still to be visited
    dependencies,     \* the list extract_dependencies builds
    dep_graph,        \* generate_ascii_tree: its argument dependencies
    package,          \* generate_ascii_tree: the package of the outermost call
    stack,            \* the calls of generate_ascii_tree in progress
    tree,             \* the text the outermost call returned
    config,           \* DependencyVisualizer.config, <<>> before it is loaded
    run_result,       \* what run returned: "none" while it runs
    data_source       \* the data run reported: "none", "repository", "sample"

tree_vars == <<dep_graph, package, stack, tree>>

run_vars == <<config, run_result, data_source>>

vars == <<pc, content, lines, i, packages, current_package, package_name,
          target_package, error, package_data, tokens, dependencies,
          tree_vars, run_vars>>

-----------------------------------------------------------------------------
(* Bounds *)

MaxChunks == 4

MaxRecords == 3

MaxDepLen == 5

-----------------------------------------------------------------------------
(* Characters and strings *)

LF == "\n"
CR == "\r"
TAB == "\t"

\* str.strip() / str.split() whitespace (the part of it the inputs use)
Whitespace == {" ", TAB, LF, CR}

\* line boundaries of str.splitlines() (the part of it the inputs use)
LineBreaks == {LF, CR}

Drop(s, n) == SubSeq(s, n + 1, Len(s))

\* index of the first element of s in set cs, 0 when there is none
FirstIn(s, cs) ==
    IF \E k \in 1..Len(s) : s[k] \in cs
    THEN CHOOSE k \in 1..Len(s) : s[k] \in cs /\ \A m \in 1..(k - 1) : s[m] \notin cs
    ELSE 0

\* index of the first element of s NOT in set cs, 0 when there is none
FirstNotIn(s, cs) ==
    IF \E k \in 1..Len(s) : s[k] \notin cs
    THEN CHOOSE k \in 1..Len(s) : s[k] \notin cs /\ \A m \in 1..(k - 1) : s[m] \in cs
    ELSE 0

LastNotIn(s, cs) ==
    IF \E k \in 1..Len(s) : s[k] \notin cs
    THEN CHOOSE k \in 1..Len(s) : s[k] \notin cs /\ \A m \in (k + 1)..Len(s) : s[m] \in cs
    ELSE 0

\* str.strip()
Strip(s) ==
    LET a == FirstNotIn(s, Whitespace)
        b == LastNotIn(s, Whitespace)
    IN IF a = 0 THEN <<>> ELSE SubSeq(s, a, b)

\* str.splitlines(): "\n", "\r" and "\r\n" end a line; no empty last line
RECURSIVE SplitLines(_)
SplitLines(s) ==
    IF s = <<>> THEN <<>>
    ELSE LET k == FirstIn(s, LineBreaks)
         IN IF k = 0 THEN <<s>>
            ELSE LET n == IF s[k] = CR /\ k < Len(s) /\ s[k + 1] = LF
                          THEN k + 1 ELSE k
                 IN <<SubSeq(s, 1, k - 1)>> \o SplitLines(Drop(s, n))

\* ':' in line
HasColon(line) == \E k \in 1..Len(line) : line[k] = ":"

\* a bug: the split is done at the last colon (rsplit)
SplitFieldLastColon(line) ==
    LET k == CHOOSE j \in 1..Len(line) :
                 line[j] = ":" /\ \A m \in (j + 1)..Len(line) : line[m] # ":"
    IN [key |-> SubSeq(line, 1, k - 1), value |-> Drop(line, k)]

\* line.split(':', 1) for a line that holds a colon
SplitField(line) ==
    LET k == FirstIn(line, {":"})
    IN [key |-> SubSeq(line, 1, k - 1), value |-> Drop(line, k)]

-----------------------------------------------------------------------------
(* Dicts *)

EmptyDict == <<>>

P == <<"P">>
V == <<"V">>
D == <<"D">>

Has(d, k) == k \in DOMAIN d

\* d[k] = v
DictSet(d, k, v) == [x \in (DOMAIN d) \cup {k} |-> IF x = k THEN v ELSE d[x]]

\* f"{current_package['P']}-{current_package['V']}"
PkgName(rec) == rec[P] \o <<"-">> \o rec[V]

Keys(index) == {index[n].key : n \in 1..Len(index)}

IndexOf(index, key) == CHOOSE n \in 1..Len(index) : index[n].key = key

\* packages[key] for a key of the index
Lookup(index, key) == index[IndexOf(index, key)].data

\* a bug: an existing key is kept (setdefault)
IndexPutKeepFirst(index, key, data) ==
    IF key \in Keys(index) THEN index
    ELSE Append(index, [key |-> key, data |-> data])

\* packages[key] = data : an existing key keeps its place in the order
IndexPut(index, key, data) ==
    IF key \in Keys(index)
    THEN [index EXCEPT ![IndexOf(index, key)] = [key |-> key, data |-> data]]
    ELSE Append(index, [key |-> key, data |-> data])

-----------------------------------------------------------------------------
(* AlpinePackageParser.parse_package_index *)

\* current_package and 'P' in current_package and 'V' in current_package
IsComplete(cur) == cur # EmptyDict /\ Has(cur, P) /\ Has(cur, V)

\* cur.get(k, '')
GetOr(d, k) == IF Has(d, k) THEN d[k] ELSE <<>>

\* a bug: "or" for "and", with .get: a record with P or V alone is committed
CommitPartial(index, cur) ==
    IF cur # EmptyDict /\ (Has(cur, P) \/ Has(cur, V))
    THEN IndexPut(index, GetOr(cur, P) \o <<"-">> \o GetOr(cur, V), cur)
    ELSE index

\* a bug: the guard is missing, every terminator commits
CommitAlways(index, cur) ==
    IndexPut(index, GetOr(cur, P) \o <<"-">> \o GetOr(cur, V), cur)

\* the guarded commit: packages[pkg_name] = current_package.copy()
Commit(index, cur) ==
    IF IsComplete(cur) THEN IndexPut(index, PkgName(cur), cur) ELSE index

\* a bug: the record being accumulated is not reset
OnBlankNoReset(st) ==
    [packages |-> Commit(st.packages, st.current_package),
     current_package |-> st.current_package]

\* the blank-line branch: commit, then current_package = {}
OnBlank(st) ==
    [packages |-> Commit(st.packages, st.current_package),
     current_package |-> EmptyDict]

\* the colon branch: current_package[key] = value.strip()
OnField(st, line) ==
    LET f == SplitField(line)
    IN [st EXCEPT !.current_package = DictSet(@, f.key, Strip(f.value))]

\* a bug: a line that cannot be parsed ends the record
OnMalformedTerminates(st) ==
    [packages |-> Commit(st.packages, st.current_package),
     current_package |-> EmptyDict]

\* a line with no colon falls through both ifs
OnMalformed(st) == st

\* one iteration of the for loop over the raw line
LoopBody(st, raw) ==
    LET line == Strip(raw)
    IN IF line = <<>> THEN OnBlank(st)
       ELSE IF HasColon(line) THEN OnField(st, line)
       ELSE OnMalformed(st)

RECURSIVE RunLoop(_, _)
RunLoop(st, ls) ==
    IF ls = <<>> THEN st ELSE RunLoop(LoopBody(st, Head(ls)), Tail(ls))

\* a bug: the record open at end of input is lost
FinalCommitMissing(st) == st.packages

\* the commit after the loop ("the last package")
FinalCommit(st) == Commit(st.packages, st.current_package)

ParserStart == [packages |-> <<>>, current_package |-> EmptyDict]

\* the whole function, as the callers use it
parse_package_index(text) == FinalCommit(RunLoop(ParserStart, SplitLines(text)))

-----------------------------------------------------------------------------
(* Inputs of the parser: texts made of up to MaxChunks chunks joined by    *)
(* line feeds                                                              *)

BlankChunk == <<>>
SpaceChunk == <<" ", TAB>>
RecordChunk == <<"P", ":", "a", CR, LF, "V", ":", "1">>
NameChunk == <<"P", ":", "a">>
VersionChunk == <<"V", ":", "1">>
DepsChunk == <<"D", ":", "x", ":", "y">>
JunkChunk == <<"x">>
PaddedChunk == <<" ", "P", ":", " ", "b", " ">>

Chunks == {BlankChunk, SpaceChunk, RecordChunk, NameChunk, VersionChunk,
           DepsChunk, JunkChunk, PaddedChunk}

RECURSIVE JoinLF(_)
JoinLF(cs) ==
    IF cs = <<>> THEN <<>>
    ELSE IF Len(cs) = 1 THEN cs[1]
    ELSE cs[1] \o <<LF>> \o JoinLF(Tail(cs))

ChunkSeqs == UNION {[1..m -> Chunks] : m \in 0..MaxChunks}

Texts == {JoinLF(cs) : cs \in ChunkSeqs}

\* no tree is being rendered
NoTree ==
    /\ dep_graph = EmptyDict
    /\ package = <<>>
    /\ stack = <<>>
    /\ tree = <<>>

\* run is not in progress
NoRun ==
    /\ config = <<>>
    /\ run_result = "none"
    /\ data_source = "none"

Idle ==
    /\ package_name = <<>>
    /\ target_package = <<>>
    /\ error = <<>>
    /\ package_data = EmptyDict
    /\ tokens = <<>>
    /\ dependencies = <<>>

ParserEntry ==
    /\ lines = <<>>
    /\ i = 0
    /\ packages = <<>>
    /\ current_package = EmptyDict

Init ==
    /\ pc = "parse"
    /\ content \in Texts
    /\ ParserEntry
    /\ Idle
    /\ NoTree
    /\ NoRun

ParserFrame ==
    UNCHANGED <<content, package_name, target_package, error, package_data,
                tokens, dependencies,
                tree_vars, run_vars>>

St == [packages |-> packages, current_package |-> current_package]

\* packages = {}; current_package = {}; the loop's iterator is made
SplitInput ==
    /\ pc = "parse"
    /\ lines' = SplitLines(content)
    /\ i' = 1
    /\ packages' = ParserStart.packages
    /\ current_package' = ParserStart.current_package
    /\ pc' = "loop"
    /\ ParserFrame

AtLine == pc = "loop" /\ i <= Len(lines)

Advance(st) ==
    /\ packages' = st.packages
    /\ current_package' = st.current_package
    /\ i' = i + 1
    /\ UNCHANGED <<pc, lines>>
    /\ ParserFrame

BlankLine ==
    /\ AtLine
    /\ Strip(lines[i]) = <<>>
    /\ Advance(LoopBody(St, lines[i]))

FieldLine ==
    /\ AtLine
    /\ Strip(lines[i]) # <<>>
    /\ HasColon(Strip(lines[i]))
    /\ Advance(LoopBody(St, lines[i]))

MalformedLine ==
    /\ AtLine
    /\ Strip(lines[i]) # <<>>
    /\ ~HasColon(Strip(lines[i]))
    /\ Advance(LoopBody(St, lines[i]))

\* the loop is over: the last commit and the return
CommitLast ==
    /\ pc = "loop"
    /\ i > Len(lines)
    /\ packages' = FinalCommit(St)
    /\ pc' = "done"
    /\ UNCHANGED <<lines, i, current_package>>
    /\ ParserFrame

Next ==
    \/ SplitInput
    \/ BlankLine
    \/ FieldLine
    \/ MalformedLine
    \/ CommitLast

Spec == Init /\ [][Next]_vars

-----------------------------------------------------------------------------
(* AlpinePackageParser.extract_dependencies *)

Operators == {"<", "=", ">"}

\* a bug: the pattern is [<>].*$ and a token such as a=1 keeps its suffix
CleanDepNoEquals(dep) ==
    LET k == FirstIn(dep, {"<", ">"})
    IN IF k = 0 THEN dep ELSE SubSeq(dep, 1, k - 1)

\* re.sub(r'[<=>].*$', '', dep) on a token, which holds no whitespace:
\* everything from the first operator character on is removed
CleanDep(dep) ==
    LET k == FirstIn(dep, Operators)
    IN IF k = 0 THEN dep ELSE SubSeq(dep, 1, k - 1)

\* deps_str.split()
RECURSIVE SplitWS(_)
SplitWS(s) ==
    LET a == FirstNotIn(s, Whitespace)
    IN IF a = 0 THEN <<>>
       ELSE LET rest == Drop(s, a - 1)
                b == FirstIn(rest, Whitespace)
            IN IF b = 0 THEN <<rest>>
               ELSE <<SubSeq(rest, 1, b - 1)>> \o SplitWS(Drop(rest, b))

\* 'D' in package_data and package_data['D']
HasDeps(pd) == Has(pd, D) /\ pd[D] # <<>>

\* a bug: "if clean_dep:" is missing and empty names are appended
VisitTokenKeepEmpty(deps, dep) == Append(deps, CleanDep(dep))

\* the body of the for loop over the tokens
VisitToken(deps, dep) ==
    LET clean_dep == CleanDep(dep)
    IN IF clean_dep # <<>> THEN Append(deps, clean_dep) ELSE deps

RECURSIVE VisitAll(_, _)
VisitAll(deps, toks) ==
    IF toks = <<>> THEN deps ELSE VisitAll(VisitToken(deps, Head(toks)), Tail(toks))

\* the whole function, as the callers use it
extract_dependencies(pd) ==
    IF HasDeps(pd) THEN VisitAll(<<>>, SplitWS(pd[D])) ELSE <<>>

(* Inputs: a record without D, or with a D of up to MaxDepLen characters *)

DepAlphabet == {"a", "b", " ", "<", "=", ">"}

DepStrings == UNION {[1..m -> DepAlphabet] : m \in 0..MaxDepLen}

ExtractInputs == {EmptyDict} \cup {[f \in {D} |-> s] : s \in DepStrings}

NoParse ==
    /\ content = <<>>
    /\ ParserEntry

InitExtract ==
    /\ pc = "extract"
    /\ package_data \in ExtractInputs
    /\ tokens = <<>>
    /\ dependencies = <<>>
    /\ package_name = <<>>
    /\ target_package = <<>>
    /\ error = <<>>
    /\ NoParse
    /\ NoTree
    /\ NoRun

ExtractFrame ==
    UNCHANGED <<content, lines, i, packages, current_package, package_name,
                target_package, error, package_data,
                tree_vars, run_vars>>

\* the if is false: the empty list is returned
ExtractNoField ==
    /\ pc = "extract"
    /\ ~HasDeps(package_data)
    /\ dependencies' = <<>>
    /\ pc' = "done"
    /\ UNCHANGED tokens
    /\ ExtractFrame

\* the if is true: the loop over deps_str.split() starts
ExtractSplit ==
    /\ pc = "extract"
    /\ HasDeps(package_data)
    /\ dependencies' = <<>>
    /\ tokens' = SplitWS(package_data[D])
    /\ pc' = "tokens"
    /\ ExtractFrame

AtToken == pc = "tokens" /\ tokens # <<>>

Visit ==
    /\ dependencies' = VisitToken(dependencies, Head(tokens))
    /\ tokens' = Tail(tokens)
    /\ UNCHANGED pc
    /\ ExtractFrame

KeepToken ==
    /\ AtToken
    /\ CleanDep(Head(tokens)) # <<>>
    /\ Visit

DropToken ==
    /\ AtToken
    /\ CleanDep(Head(tokens)) = <<>>
    /\ Visit

ExtractReturn ==
    /\ pc = "tokens"
    /\ tokens = <<>>
    /\ pc' = "done"
    /\ UNCHANGED <<tokens, dependencies>>
    /\ ExtractFrame

NextExtract ==
    \/ ExtractNoField
    \/ ExtractSplit
    \/ KeepToken
    \/ DropToken
    \/ ExtractReturn

SpecExtract == InitExtract /\ [][NextExtract]_vars

-----------------------------------------------------------------------------
(* DependencyFetcher.get_direct_dependencies *)

None == <<>>

Some(data) == <<data>>

\* the truth value of target_package: None and the empty dict are false
Truthy(t) == t # None /\ t[1] # EmptyDict

\* needle in hay
IsSubstring(needle, hay) ==
    \E k \in 0..Len(hay) :
        /\ k + Len(needle) <= Len(hay)
        /\ SubSeq(hay, k + 1, k + Len(needle)) = needle

\* the data of the first entry, in the index's order, among hits (the
\* loop's break); None if there is none
FirstHit(index, hits) ==
    IF hits = {} THEN None
    ELSE Some(index[CHOOSE n \in hits : \A m \in hits : n <= m].data)

\* a bug: the name is looked for inside P ("in" for "==")
FindExactBySubstring(index, name) ==
    FirstHit(index, {n \in 1..Len(index) :
                        /\ Has(index[n].data, P)
                        /\ IsSubstring(name, index[n].data[P])})

\* the first loop: pkg_data.get('P') == package_name
FindExact(index, name) ==
    FirstHit(index, {n \in 1..Len(index) :
                        /\ Has(index[n].data, P)
                        /\ index[n].data[P] = name})

\* a bug: the fallback looks into the name, not into the key
FindPartialInName(index, name) ==
    FirstHit(index, {n \in 1..Len(index) :
                        /\ Has(index[n].data, P)
                        /\ IsSubstring(name, index[n].data[P])})

\* the second loop: package_name in pkg_key
FindPartial(index, name) ==
    FirstHit(index, {n \in 1..Len(index) : IsSubstring(name, index[n].key)})

FetchFailed == <<"index not retrievable">>

NotFound(name) == <<"package not found", name>>

(* Inputs: index texts of up to MaxRecords records, and requested names *)

RecordAB1 == <<"P", ":", "a", "b", LF, "V", ":", "1">>
RecordA1 ==
    <<"P", ":", "a", LF, "V", ":", "1", LF, "D", ":", "b", ">", "1", " ", "c">>
RecordA2 == <<"P", ":", "a", LF, "V", ":", "2">>
RecordBA == <<"P", ":", "b", LF, "V", ":", "a">>
RecordSix == <<"P", ":", "s", "i", "x", LF, "V", ":", "1", LF, "D", ":", "a">>

Records == {RecordAB1, RecordA1, RecordA2, RecordBA, RecordSix}

\* the records, each followed by a blank line
RECURSIVE IndexText(_)
IndexText(rs) ==
    IF rs = <<>> THEN <<>>
    ELSE Head(rs) \o <<LF, LF>> \o IndexText(Tail(rs))

IndexTexts == {IndexText(rs) : rs \in UNION {[1..m -> Records] : m \in 0..MaxRecords}}

Names == {<<"a">>, <<"1">>, <<"c">>, <<"a", "-", "1">>, <<>>}

InitFetch ==
    /\ pc = "fetch"
    /\ package_name \in Names
    /\ target_package = None
    /\ error = <<>>
    /\ package_data = EmptyDict
    /\ tokens = <<>>
    /\ dependencies = <<>>
    /\ NoParse
    /\ NoTree
    /\ NoRun

\* fetch_package_index returns the index text
FetchIndex ==
    /\ pc = "fetch"
    /\ content' \in IndexTexts
    /\ pc' = "parse"
    /\ UNCHANGED <<lines, i, packages, current_package, package_name,
                   target_package, error, package_data, tokens, dependencies,
                tree_vars, run_vars>>

\* fetch_package_index raises DependencyError
FetchFails ==
    /\ pc = "fetch"
    /\ error' = FetchFailed
    /\ pc' = "raised"
    /\ UNCHANGED <<content, lines, i, packages, current_package, package_name,
                   target_package, package_data, tokens, dependencies,
                tree_vars, run_vars>>

\* packages = AlpinePackageParser.parse_package_index(index_content)
ParseIndex ==
    /\ pc = "parse"
    /\ packages' = parse_package_index(content)
    /\ pc' = "exact"
    /\ UNCHANGED <<content, lines, i, current_package, package_name,
                   target_package, error, package_data, tokens, dependencies,
                tree_vars, run_vars>>

LookupFrame ==
    UNCHANGED <<content, lines, i, packages, current_package, package_name,
                error, package_data, tokens, dependencies,
                tree_vars, run_vars>>

\* target_package = None, then the exact-match loop
ExactMatch ==
    /\ pc = "exact"
    /\ target_package' = FindExact(packages, package_name)
    /\ pc' = "partial"
    /\ LookupFrame

\* if not target_package: the partial-match loop
PartialMatch ==
    /\ pc = "partial"
    /\ ~Truthy(target_package)
    /\ target_package' = FindPartial(packages, package_name)
    /\ pc' = "check"
    /\ LookupFrame

\* the exact match was found: the fallback is skipped
SkipPartial ==
    /\ pc = "partial"
    /\ Truthy(target_package)
    /\ pc' = "check"
    /\ UNCHANGED target_package
    /\ LookupFrame

\* if not target_package: raise DependencyError(... package_name ...)
RaiseNotFound ==
    /\ pc = "check"
    /\ ~Truthy(target_package)
    /\ error' = NotFound(package_name)
    /\ pc' = "raised"
    /\ UNCHANGED <<content, lines, i, packages, current_package, package_name,
                   target_package, package_data, tokens, dependencies,
                tree_vars, run_vars>>

\* dependencies = AlpinePackageParser.extract_dependencies(target_package)
ReturnDependencies ==
    /\ pc = "check"
    /\ Truthy(target_package)
    /\ package_data' = target_package[1]
    /\ dependencies' = extract_dependencies(target_package[1])
    /\ pc' = "done"
    /\ UNCHANGED <<content, lines, i, packages, current_package, package_name,
                   target_package, error, tokens,
                tree_vars, run_vars>>

NextFetch ==
    \/ FetchIndex
    \/ FetchFails
    \/ ParseIndex
    \/ ExactMatch
    \/ PartialMatch
    \/ SkipPartial
    \/ RaiseNotFound
    \/ ReturnDependencies

SpecFetch == InitFetch /\ [][NextFetch]_vars

-----------------------------------------------------------------------------
(* DependencyVisualizer.generate_ascii_tree                                *)
(* A character outside ASCII is written by its code point: "U+2514" is the *)
(* one character BOX DRAWINGS LIGHT UP AND RIGHT.                          *)

\* the depth of recursion the model follows
MaxDepth == 5

\* the number of dependencies, over all its lists, of a graph rendered
MaxEdges == 3

\* " (не найден)"
NotFoundSuffix ==
    <<" ", "(", "U+043D", "U+0435", " ", "U+043D", "U+0430", "U+0439",
      "U+0434", "U+0435", "U+043D", ")">>

\* a bug: the line is not ended
NotFoundLineUnended(name) == name \o NotFoundSuffix

\* f"{package} (не найден)\n"
NotFoundLine(name) == name \o NotFoundSuffix \o <<LF>>

\* a bug: i == len(deps), which no index satisfies
IsLastNever(k, n) == k = n + 1

\* is_last = i == len(deps) - 1, for the k-th of n dependencies
IsLast(k, n) == k = n

\* "└── " if is_last else "├── "
Branch(is_last) ==
    IF is_last THEN <<"U+2514", "U+2500", "U+2500", " ">>
    ELSE <<"U+251C", "U+2500", "U+2500", " ">>

\* "    " if is_last else "│   "
Indent(is_last) ==
    IF is_last THEN <<" ", " ", " ", " ">> ELSE <<"U+2502", " ", " ", " ">>

\* a call that has just been entered
Call(name, prefix) == [package |-> name, prefix |-> prefix, k |-> 0, tree |-> <<>>]

Top(st) == st[Len(st)]

\* deps = dependencies[package]
DepsOf(g, fr) == g[fr.package]

\* the innermost call returns value: its caller appends it to its tree and
\* goes on with the next dependency
Deliver(st, value) ==
    IF Len(st) = 1 THEN <<>>
    ELSE [SubSeq(st, 1, Len(st) - 1) EXCEPT
             ![Len(st) - 1].tree = @ \o value,
             ![Len(st) - 1].k = @ + 1]

\* a change: a package whose rendering is in progress is not rendered again
DescendGuarded(st, g) ==
    LET fr == Top(st)
        deps == DepsOf(g, fr)
        is_last == IsLast(fr.k, Len(deps))
    IN IF \E n \in 1..Len(st) : st[n].package = deps[fr.k]
       THEN [st EXCEPT ![Len(st)].tree = @ \o fr.prefix \o Branch(is_last)
                                           \o deps[fr.k] \o <<LF>>,
                       ![Len(st)].k = @ + 1]
       ELSE Append([st EXCEPT ![Len(st)].tree = @ \o fr.prefix \o Branch(is_last)],
                   Call(deps[fr.k], fr.prefix \o Indent(is_last)))

\* the loop body up to the recursive call: the branch is appended and the
\* call for the dependency is entered with the longer prefix
Descend(st, g) ==
    LET fr == Top(st)
        deps == DepsOf(g, fr)
        is_last == IsLast(fr.k, Len(deps))
    IN Append([st EXCEPT ![Len(st)].tree = @ \o fr.prefix \o Branch(is_last)],
              Call(deps[fr.k], fr.prefix \o Indent(is_last)))

(* Inputs: graphs over three package names with up to MaxEdges dependencies *)

PkgA == <<"A">>
PkgB == <<"B">>
PkgC == <<"C">>

PackageNames == {PkgA, PkgB, PkgC}

\* the graph whose present keys are keys, A's list being e[1..a], B's
\* e[a+1..b] and C's the rest of e
MakeGraph(keys, e, a, b) ==
    [name \in keys |->
        IF name = PkgA THEN SubSeq(e, 1, a)
        ELSE IF name = PkgB THEN SubSeq(e, a + 1, b)
        ELSE SubSeq(e, b + 1, Len(e))]

EdgeSeqs == UNION {[1..m -> PackageNames] : m \in 0..MaxEdges}

\* the ways to cut e into the three lists, and the keys that may be present
Cuts(e) ==
    {q \in [keys : SUBSET PackageNames, a : 0..Len(e), b : 0..Len(e)] :
        /\ q.a <= q.b
        /\ q.a > 0 => PkgA \in q.keys
        /\ q.b > q.a => PkgB \in q.keys
        /\ Len(e) > q.b => PkgC \in q.keys}

Graphs == UNION {{MakeGraph(q.keys, e, q.a, q.b) : q \in Cuts(e)} : e \in EdgeSeqs}

InitTree ==
    /\ pc = "tree"
    /\ dep_graph \in Graphs
    /\ package = PkgA
    /\ stack = <<Call(PkgA, <<>>)>>
    /\ tree = <<>>
    /\ NoRun
    /\ Idle
    /\ NoParse

TreeFrame ==
    UNCHANGED <<content, lines, i, packages, current_package, package_name,
                target_package, error, package_data, tokens, dependencies,
                dep_graph, package, run_vars>>

InCall == pc = "tree" /\ stack # <<>>

\* the innermost call returns value
Return(value) ==
    /\ stack' = Deliver(stack, value)
    /\ IF Len(stack) = 1
       THEN tree' = value /\ pc' = "rendered"
       ELSE UNCHANGED <<tree, pc>>
    /\ TreeFrame

\* if package not in dependencies: return the not-found line
ReturnNotFound ==
    /\ InCall
    /\ Top(stack).k = 0
    /\ ~Has(dep_graph, Top(stack).package)
    /\ Return(NotFoundLine(Top(stack).package))

\* tree = f"{package}\n", and the loop over deps starts
EnterPackage ==
    /\ InCall
    /\ Top(stack).k = 0
    /\ Has(dep_graph, Top(stack).package)
    /\ stack' = [stack EXCEPT ![Len(stack)].tree = Top(stack).package \o <<LF>>,
                              ![Len(stack)].k = 1]
    /\ UNCHANGED <<tree, pc>>
    /\ TreeFrame

\* the loop is at a dependency: its branch, then the recursive call
RenderDependency ==
    /\ InCall
    /\ Top(stack).k >= 1
    /\ Top(stack).k <= Len(DepsOf(dep_graph, Top(stack)))
    /\ Len(stack) < MaxDepth
    /\ stack' = Descend(stack, dep_graph)
    /\ UNCHANGED <<tree, pc>>
    /\ TreeFrame

\* the loop is over: return tree
ReturnTree ==
    /\ InCall
    /\ Top(stack).k >= 1
    /\ Top(stack).k > Len(DepsOf(dep_graph, Top(stack)))
    /\ Return(Top(stack).tree)

NextTree ==
    \/ ReturnNotFound
    \/ EnterPackage
    \/ RenderDependency
    \/ ReturnTree

SpecTree == InitTree /\ [][NextTree]_vars

\* the calls follow one another without pause
SpecTreeFair == SpecTree /\ WF_vars(NextTree)

-----------------------------------------------------------------------------
(* DependencyVisualizer.run *)

ExamplePackage ==
    <<"e", "x", "a", "m", "p", "l", "e", "-", "p", "a", "c", "k", "a",
    "g", "e">>
Requests == <<"r", "e", "q", "u", "e", "s", "t", "s">>
Numpy == <<"n", "u", "m", "p", "y">>
Pandas == <<"p", "a", "n", "d", "a", "s">>
Urllib3 == <<"u", "r", "l", "l", "i", "b", "3">>
Chardet == <<"c", "h", "a", "r", "d", "e", "t">>
Certifi == <<"c", "e", "r", "t", "i", "f", "i">>
PythonDateutil ==
    <<"p", "y", "t", "h", "o", "n", "-", "d", "a", "t", "e", "u", "t",
    "i", "l">>
Six == <<"s", "i", "x">>
TestPackage == <<"t", "e", "s", "t", "-", "p", "a", "c", "k", "a", "g", "e">>

SampleNames ==
    {ExamplePackage, Requests, Numpy, Pandas, Urllib3, Chardet, Certifi,
     PythonDateutil, Six, TestPackage}

\* generate_sample_dependencies()
generate_sample_dependencies ==
    [name \in SampleNames |->
        IF name = ExamplePackage THEN <<Requests, Numpy, Pandas>>
        ELSE IF name = Requests THEN <<Urllib3, Chardet, Certifi>>
        ELSE IF name = Pandas THEN <<Numpy, PythonDateutil>>
        ELSE IF name = PythonDateutil THEN <<Six>>
        ELSE IF name = TestPackage THEN <<ExamplePackage>>
        ELSE <<>>]

StartsWith(text, p) == Len(text) >= Len(p) /\ SubSeq(text, 1, Len(p)) = p

Http == <<"h", "t", "t", "p", ":", "/", "/">>
Https == <<"h", "t", "t", "p", "s", ":", "/", "/">>

ConfigFailed == <<"configuration error">>

Unexpected == <<"unexpected error">>

\* validate_config, for a configuration holding every required parameter, a
\* proper output_filename and a boolean ascii_tree_output; path_exists is
\* os.path.exists(repo_path)
validate_config(c, path_exists) ==
    /\ Strip(c.package_name) # <<>>
    /\ IF c.test_repository_mode
       THEN c.test_repository_path # <<>> /\ path_exists
       ELSE /\ Truthy(c.repository_url)
            /\ Strip(c.repository_url[1]) # <<>>
            /\ \/ StartsWith(c.repository_url[1], Http)
               \/ StartsWith(c.repository_url[1], Https)

(* Inputs: the configuration files a run may load *)

Url == Http \o <<"r", "/">>
NoScheme == <<"r">>

\* names in the index and the sample data (six), in the index only (a), in
\* the sample data only (test-package), in neither (c), and a blank name
RunNames == {<<"a">>, <<"c">>, Six, TestPackage, <<" ">>}

\* repository_url is a string, or null
Configs ==
    [package_name : RunNames,
     repository_url : {Some(Url), Some(NoScheme), None},
     test_repository_mode : BOOLEAN,
     test_repository_path : {<<>>, <<"t">>},
     ascii_tree_output : BOOLEAN]

InitRun ==
    /\ pc = "run"
    /\ NoRun
    /\ NoTree
    /\ Idle
    /\ NoParse

RunFrame ==
    UNCHANGED <<content, lines, i, packages, current_package, target_package,
                package_data, tokens, dependencies>>

\* initialize(): load_config raises ConfigError; run returns False
LoadFails ==
    /\ pc = "run"
    /\ error' = ConfigFailed
    /\ run_result' = "False"
    /\ pc' = "returned"
    /\ UNCHANGED <<config, data_source, package_name, tree_vars>>
    /\ RunFrame

\* initialize(): load_config succeeds, validate_config raises ConfigError;
\* run returns False
ValidateFails ==
    /\ pc = "run"
    /\ \E c \in Configs, path_exists \in BOOLEAN :
          /\ ~validate_config(c, path_exists)
          /\ config' = c
    /\ error' = ConfigFailed
    /\ run_result' = "False"
    /\ pc' = "returned"
    /\ UNCHANGED <<data_source, package_name, tree_vars>>
    /\ RunFrame

\* initialize() returns True; display_config()
InitializeOk ==
    /\ pc = "run"
    /\ \E c \in Configs, path_exists \in BOOLEAN :
          /\ validate_config(c, path_exists)
          /\ config' = c
    /\ pc' = "fetcher"
    /\ UNCHANGED <<error, run_result, data_source, package_name, tree_vars>>
    /\ RunFrame

\* get_real_dependencies(): DependencyFetcher(repository_url, ...) and the
\* call of get_direct_dependencies(package_name)
MakeFetcher ==
    /\ pc = "fetcher"
    /\ Truthy(config.repository_url)
    /\ package_name' = config.package_name
    /\ pc' = "fetch"
    /\ UNCHANGED <<error, run_vars, tree_vars>>
    /\ RunFrame

\* repository_url.rstrip('/') on a value that is no string raises
\* AttributeError, caught by except Exception: run returns False
UnexpectedError ==
    /\ pc = "fetcher"
    /\ ~Truthy(config.repository_url)
    /\ error' = Unexpected
    /\ run_result' = "False"
    /\ pc' = "returned"
    /\ UNCHANGED <<config, data_source, package_name, tree_vars>>
    /\ RunFrame

\* tree = self.generate_ascii_tree(dependencies, target_package), or no call
ShowTree(wanted) ==
    IF wanted /\ Has(generate_sample_dependencies, config.package_name)
    THEN /\ package' = config.package_name
         /\ stack' = <<Call(config.package_name, <<>>)>>
         /\ pc' = "tree"
    ELSE /\ UNCHANGED <<package, stack>>
         /\ pc' = "finish"

\* a bug: the dependency error ends the run
UseSampleDataFails ==
    /\ pc = "raised"
    /\ run_result' = "False"
    /\ pc' = "returned"
    /\ UNCHANGED <<config, data_source, error, package_name, tree_vars>>
    /\ RunFrame

\* the direct dependencies came from the repository; with ascii_tree_output
\* the tree of the sample data is shown
UseRepositoryData ==
    /\ pc = "done"
    /\ data_source' = "repository"
    /\ dep_graph' = IF config.ascii_tree_output
                    THEN generate_sample_dependencies ELSE dep_graph
    /\ ShowTree(config.ascii_tree_output)
    /\ UNCHANGED <<config, run_result, error, package_name, tree>>
    /\ RunFrame

\* except DependencyError: the sample data replaces the repository
UseSampleData ==
    /\ pc = "raised"
    /\ data_source' = "sample"
    /\ dep_graph' = generate_sample_dependencies
    /\ ShowTree(config.ascii_tree_output)
    /\ UNCHANGED <<config, run_result, error, package_name, tree>>
    /\ RunFrame

\* return True
ReturnTrue ==
    /\ pc \in {"finish", "rendered"}
    /\ run_result' = "True"
    /\ pc' = "returned"
    /\ UNCHANGED <<config, data_source, error, package_name, tree_vars>>
    /\ RunFrame

\* every name the sample data lists is a key of it, and the tree is asked
\* for a key only: the calls of generate_ascii_tree take no not-found branch
NextRun ==
    \/ LoadFails
    \/ ValidateFails
    \/ InitializeOk
    \/ MakeFetcher
    \/ UnexpectedError
    \/ FetchIndex
    \/ FetchFails
    \/ ParseIndex
    \/ ExactMatch
    \/ PartialMatch
    \/ SkipPartial
    \/ RaiseNotFound
    \/ ReturnDependencies
    \/ UseRepositoryData
    \/ UseSampleData
    \/ EnterPackage
    \/ RenderDependency
    \/ ReturnTree
    \/ ReturnTrue

SpecRun == InitRun /\ [][NextRun]_vars

-----------------------------------------------------------------------------
(* Claims about parse_package_index, checked under Spec *)

Dash == <<"-">>

Blank(raw) == \A k \in 1..Len(raw) : raw[k] \in Whitespace

ColonCount(raw) == Cardinality({k \in 1..Len(raw) : raw[k] = ":"})

\* the loop is at a record terminator: a blank line, or the end of input
AtTerminator ==
    \/ AtLine /\ Blank(lines[i])
    \/ pc = "loop" /\ i > Len(lines)

HasNameAndVersion(rec) == P \in DOMAIN rec /\ V \in DOMAIN rec

EntryWellFormed(e) ==
    /\ HasNameAndVersion(e.data)
    /\ e.key = e.data[P] \o Dash \o e.data[V]

C1_EntriesWellFormed ==
    /\ \A n \in 1..Len(packages) : EntryWellFormed(packages[n])
    /\ error = <<>>
    /\ pc \in {"parse", "loop", "done"}

C1_IncompleteDropped ==
    (AtTerminator /\ ~HasNameAndVersion(current_package)) => packages' = packages

\* C1: parse_package_index always returns (no state of the parse is stuck or
\* raises); every entry of the index holds both P and V and is stored under
\* the key P + "-" + V; a record that lacks P or V at its terminator adds
\* no entry.
C1_ParseKeepsOnlyCompleteRecords ==
    [](C1_EntriesWellFormed) /\ [][C1_IncompleteDropped]_vars

\* a text with a version-only record, then a complete one, has been parsed
C1_Witness ==
    /\ pc = "done"
    /\ content = JoinLF(<<VersionChunk, BlankChunk, RecordChunk>>)
    /\ Len(packages) = 1
    /\ packages[1].key = <<"a", "-", "1">>

EndsWithBlankLine == lines # <<>> /\ Blank(lines[Len(lines)])

\* C2: when the input does not end with a blank line, the index returned is
\* the index of the same text followed by a blank line (the record open at
\* end of input is committed if it has P and V).
C2_LastRecordCommitted ==
    (pc = "done" /\ ~EndsWithBlankLine)
        => packages = parse_package_index(content \o <<LF, LF>>)

\* an input ending inside a complete record has been parsed
C2_Witness ==
    /\ pc = "done"
    /\ ~EndsWithBlankLine
    /\ HasNameAndVersion(current_package)
    /\ Len(packages) = 1
    /\ packages[1].data = current_package

\* C3: the empty text, and any text of empty or whitespace-only lines,
\* yields the empty index.
C3_BlankInputEmptyIndex ==
    (pc = "done" /\ \A k \in 1..Len(content) : content[k] \in Whitespace)
        => packages = <<>>

\* a text of several whitespace-only lines has been parsed
C3_Witness ==
    /\ pc = "done"
    /\ content = JoinLF(<<SpaceChunk, BlankChunk, SpaceChunk>>)
    /\ packages = <<>>

\* a text without its leading and trailing whitespace, as the claims read it
Trimmed(s) ==
    LET ne == {k \in 1..Len(s) : s[k] \notin Whitespace}
        lo == CHOOSE k \in ne : \A m \in ne : k <= m
        hi == CHOOSE k \in ne : \A m \in ne : m <= k
    IN IF ne = {} THEN <<>> ELSE [k \in 1..(hi - lo + 1) |-> s[lo + k - 1]]

AtFieldLine == AtLine /\ ~Blank(lines[i]) /\ ColonCount(lines[i]) > 0

C4_FieldStep ==
    AtFieldLine =>
        LET line == Trimmed(lines[i])
            c == CHOOSE k \in 1..Len(line) :
                     line[k] = ":" /\ \A m \in 1..(k - 1) : line[m] # ":"
            code == [k \in 1..(c - 1) |-> line[k]]
            value == Trimmed([k \in 1..(Len(line) - c) |-> line[c + k]])
        IN /\ DOMAIN current_package' = DOMAIN current_package \cup {code}
           /\ current_package'[code] = value
           /\ \A f \in DOMAIN current_package \ {code} :
                  current_package'[f] = current_package[f]
           /\ packages' = packages

\* C4: a non-blank line with a colon is split at its first colon only; the
\* text before it is the field code, the trimmed text after it the value
\* (further colons stay in the value); the field is assigned into the
\* record, replacing an earlier value of the same code.
C4_SplitAtFirstColon == [][C4_FieldStep]_vars

\* P was overwritten and a value with an embedded colon was stored
C4_Witness ==
    /\ pc = "loop"
    /\ i = 4
    /\ lines = <<NameChunk, PaddedChunk, DepsChunk>>
    /\ current_package[P] = <<"b">>
    /\ current_package[D] = <<"x", ":", "y">>

\* the lines of a text as spans of it: first..last is the line, next is
\* where the following line starts
RECURSIVE LineSpans(_, _)
LineSpans(s, from) ==
    IF from > Len(s) THEN <<>>
    ELSE LET brk == {k \in from..Len(s) : s[k] \in {LF, CR}}
         IN IF brk = {}
            THEN <<[first |-> from, last |-> Len(s), next |-> Len(s) + 1]>>
            ELSE LET k == CHOOSE x \in brk : \A y \in brk : x <= y
                     n == IF s[k] = CR /\ k < Len(s) /\ s[k + 1] = LF
                          THEN k + 2 ELSE k + 1
                 IN <<[first |-> from, last |-> k - 1, next |-> n]>>
                        \o LineSpans(s, n)

WithoutLine(s, sp) == SubSeq(s, 1, sp.first - 1) \o SubSeq(s, sp.next, Len(s))

Unparseable(raw) == ~Blank(raw) /\ ColonCount(raw) = 0

C5_LineRemovable ==
    pc = "done" =>
        LET sps == LineSpans(content, 1)
        IN /\ Len(sps) = Len(lines)
           /\ \A n \in 1..Len(sps) :
                  Unparseable(SubSeq(content, sps[n].first, sps[n].last))
                      => packages = parse_package_index(WithoutLine(content, sps[n]))

C5_LineSkipped ==
    (AtLine /\ Unparseable(lines[i]))
        => /\ packages' = packages
           /\ current_package' = current_package
           /\ pc' = "loop"

\* C5: a non-blank line with no colon raises nothing, leaves the record
\* being accumulated as it is and does not end it; the index returned is
\* the index of the same text with that line removed.
C5_MalformedLineIgnored == [](C5_LineRemovable) /\ [][C5_LineSkipped]_vars

\* a line with no colon sat between P and V of a record that was committed
C5_Witness ==
    /\ pc = "done"
    /\ lines = <<NameChunk, JunkChunk, VersionChunk>>
    /\ Len(packages) = 1
    /\ packages[1].data = current_package
    /\ DOMAIN current_package = {P, V}

C6_KeysUnique ==
    \A m, n \in 1..Len(packages) : packages[m].key = packages[n].key => m = n

C6_CommitStep ==
    (AtTerminator /\ HasNameAndVersion(current_package)) =>
        LET key == current_package[P] \o Dash \o current_package[V]
            at == {n \in 1..Len(packages') : packages'[n].key = key}
            had == \E m \in 1..Len(packages) : packages[m].key = key
        IN /\ Cardinality(at) = 1
           /\ \A n \in at : packages'[n].data = current_package
           /\ Len(packages') = IF had THEN Len(packages) ELSE Len(packages) + 1
           /\ \A m \in 1..Len(packages) :
                  packages[m].key # key
                      => \E n \in 1..Len(packages') : packages'[n] = packages[m]

\* C6: the index holds one entry per composite key; committing a record
\* whose P and V are those of an earlier record replaces that entry's
\* contents with the later record's (last write wins), adds no entry and
\* raises nothing.
C6_LastWriteWins == [](C6_KeysUnique /\ error = <<>>) /\ [][C6_CommitStep]_vars

\* two records a-1, the first with a D field, the second without: the
\* index holds the second
C6_Witness ==
    /\ pc = "done"
    /\ content = JoinLF(<<RecordChunk, DepsChunk, BlankChunk, RecordChunk>>)
    /\ Len(packages) = 1
    /\ packages[1].key = <<"a", "-", "1">>
    /\ DOMAIN packages[1].data = {P, V}

-----------------------------------------------------------------------------
(* Claims about extract_dependencies, checked under SpecExtract *)

\* C7: no element of the list extract_dependencies builds or returns holds
\* '<', '=' or '>', and no element is the empty string.
C7_NamesAreClean ==
    \A n \in 1..Len(dependencies) :
        /\ dependencies[n] # <<>>
        /\ \A k \in 1..Len(dependencies[n]) :
               dependencies[n][k] \notin {"<", "=", ">"}

\* D = "a>b =" has been processed: the suffix of the first token is cut and
\* the second token, which starts with an operator, is discarded
C7_Witness ==
    /\ pc = "done"
    /\ Has(package_data, D)
    /\ package_data[D] = <<"a", ">", "b", " ", "=">>
    /\ dependencies = << <<"a">> >>

\* the whitespace-separated tokens of a text, in order, as the claims read
\* them: its maximal runs of characters that are not whitespace
ClaimTokens(s) ==
    LET ink(k) == k \in 1..Len(s) /\ s[k] \notin Whitespace
        runs == {r \in (1..Len(s)) \X (1..Len(s)) :
                    /\ r[1] <= r[2]
                    /\ \A k \in r[1]..r[2] : ink(k)
                    /\ ~ink(r[1] - 1)
                    /\ ~ink(r[2] + 1)}
        nth(n) == CHOOSE r \in runs :
                      Cardinality({q \in runs : q[1] < r[1]}) = n - 1
    IN [n \in 1..Cardinality(runs) |->
           [k \in 1..(nth(n)[2] - nth(n)[1] + 1) |-> s[nth(n)[1] + k - 1]]]

\* the prefix of a token up to, not including, its first '<', '=' or '>'
ClaimPrefix(t) ==
    LET ok == {m \in 0..Len(t) : \A k \in 1..m : t[k] \notin {"<", "=", ">"}}
        m == CHOOSE x \in ok : \A y \in ok : y <= x
    IN [k \in 1..m |-> t[k]]

ClaimPrefixes(s) ==
    LET toks == ClaimTokens(s) IN [n \in 1..Len(toks) |-> ClaimPrefix(toks[n])]

NonEmptyText(t) == t # <<>>

DAbsentOrEmpty == D \notin DOMAIN package_data \/ package_data[D] = <<>>

\* C8 as stated: the result holds the prefix of EACH token.
C8_PrefixOfEveryToken ==
    pc = "done" =>
        dependencies = IF DAbsentOrEmpty THEN <<>>
                       ELSE ClaimPrefixes(package_data[D])

\* C8, amended: extract_dependencies returns the empty list when D is
\* absent or empty; otherwise it returns, in source order and without
\* de-duplication, the NON-EMPTY prefixes of the whitespace-separated tokens
\* of D up to their first '<', '=' or '>' (a token that starts with one of
\* them contributes nothing).
C8_NonEmptyPrefixesInOrder ==
    pc = "done" =>
        dependencies = IF DAbsentOrEmpty THEN <<>>
                       ELSE SelectSeq(ClaimPrefixes(package_data[D]), NonEmptyText)

\* D = " a  a" has been processed: the name occurs twice in the result and
\* the leading and repeated whitespace left no trace
C8_Witness ==
    /\ pc = "done"
    /\ Has(package_data, D)
    /\ package_data[D] = <<" ", "a", " ", " ", "a">>
    /\ dependencies = << <<"a">>, <<"a">> >>

-----------------------------------------------------------------------------
(* Claims about get_direct_dependencies, checked under SpecFetch *)

\* both loops have run
LookupOver == pc \in {"check", "done"} \/ (pc = "raised" /\ error # FetchFailed)

\* get_direct_dependencies has returned, or raised after its lookup
LookupEnded == pc = "done" \/ (pc = "raised" /\ error # FetchFailed)

NameOf(e) == e.data[P]

SomeExact == \E n \in 1..Len(packages) : NameOf(packages[n]) = package_name

\* the name occurs in the text at some position
OccursIn(name, text) ==
    \E a \in 1..(Len(text) + 1) :
        /\ a + Len(name) - 1 <= Len(text)
        /\ \A k \in 1..Len(name) : text[a + k - 1] = name[k]

CompositeKey(e) == e.data[P] \o Dash \o e.data[V]

PartialHits == {n \in 1..Len(packages) : OccursIn(package_name, CompositeKey(packages[n]))}

\* C9: whenever some record's P equals the requested name, the lookup
\* resolves a record whose P is that name and raises nothing, also when an
\* earlier entry's composite key contains the name.
C9_ExactMatchPreferred ==
    (LookupOver /\ SomeExact)
        => /\ error = <<>>
           /\ target_package # <<>>
           /\ target_package[1][P] = package_name
           /\ \E n \in 1..Len(packages) : packages[n].data = target_package[1]

\* "a" was looked up in an index whose first key, ab-1, contains it and
\* whose second record is named a: the second was resolved
C9_Witness ==
    /\ pc = "done"
    /\ package_name = <<"a">>
    /\ Len(packages) >= 2
    /\ packages[1].key = <<"a", "b", "-", "1">>
    /\ packages[2].data[P] = <<"a">>
    /\ target_package = <<packages[2].data>>

\* C10: the lookup raises the not-found DependencyError, naming the
\* requested package, exactly when no record's P equals the name and no
\* composite key contains it; with no exact match, a name that occurs in a
\* composite key (be it in the version only) resolves the first entry whose
\* key contains it.
C10_NotFoundIffNoMatch ==
    LookupEnded =>
        /\ (pc = "raised") = (~SomeExact /\ PartialHits = {})
        /\ pc = "raised" => error = <<"package not found", package_name>>
        /\ pc # "raised" => error = <<>>
        /\ (~SomeExact /\ PartialHits # {})
               => \E n \in PartialHits :
                      /\ \A m \in PartialHits : n <= m
                      /\ target_package = <<packages[n].data>>

\* "1" names no package and occurs in versions only: the first record with
\* such a version was resolved
C10_Witness ==
    /\ pc = "done"
    /\ package_name = <<"1">>
    /\ ~SomeExact
    /\ Len(packages) >= 2
    /\ packages[1].key = <<"a", "-", "2">>
    /\ target_package = <<packages[2].data>>
    /\ error = <<>>

-----------------------------------------------------------------------------
(* More claims about parse_package_index, checked under Spec *)

\* the field a raw line with a colon states, as the claims read it
ClaimField(raw) ==
    LET line == Trimmed(raw)
        c == CHOOSE k \in 1..Len(line) :
                 line[k] = ":" /\ \A m \in 1..(k - 1) : line[m] # ":"
    IN [code |-> [k \in 1..(c - 1) |-> line[k]],
        value |-> Trimmed([k \in 1..(Len(line) - c) |-> line[c + k]])]

\* the lines read so far that follow the last blank line read so far
SinceLastBlank ==
    LET read == 1..(i - 1)
        blanks == {n \in read : Blank(lines[n])}
    IN {n \in read : \A b \in blanks : b < n}

\* every field of the record being accumulated was read after the last
\* blank line
C13_FieldsSinceBlank ==
    pc \in {"loop", "done"} =>
        \A f \in DOMAIN current_package :
            \E n \in SinceLastBlank :
                /\ ColonCount(lines[n]) > 0
                /\ ClaimField(lines[n]).code = f
                /\ ClaimField(lines[n]).value = current_package[f]

C13_BlankResets ==
    (AtLine /\ Blank(lines[i])) => current_package' = <<>>

\* an entry of the index changes or appears only at a terminator, by the
\* commit of a complete record with the entry's key, and then holds that
\* record
C13_CommittedStable ==
    /\ \A m \in 1..Len(packages) :
           \/ m <= Len(packages') /\ packages'[m] = packages[m]
           \/ /\ AtTerminator
              /\ HasNameAndVersion(current_package)
              /\ packages[m].key = current_package[P] \o Dash \o current_package[V]
    /\ \A n \in 1..Len(packages') :
           \/ n <= Len(packages) /\ packages'[n] = packages[n]
           \/ AtTerminator /\ packages'[n].data = current_package

\* C13: a blank or whitespace-only line resets the record being accumulated,
\* committed or not; a committed record holds only fields read after the
\* last blank line before it; an entry already committed changes only when
\* a later record with its composite key is committed.
C13_BlankLineIsolatesRecords ==
    [](C13_FieldsSinceBlank) /\ [][C13_BlankResets /\ C13_CommittedStable]_vars

\* a D field, a blank line, then a complete record: the D field, dropped
\* uncommitted, is not in the entry
C13_Witness ==
    /\ pc = "done"
    /\ content = JoinLF(<<DepsChunk, BlankChunk, RecordChunk>>)
    /\ Len(packages) = 1
    /\ DOMAIN packages[1].data = {P, V}
    /\ D \notin DOMAIN current_package

-----------------------------------------------------------------------------
(* Claims about generate_ascii_tree, checked under SpecTree / SpecTreeFair *)

\* " (not found)"
EnglishNotFound == <<" ", "(", "n", "o", "t", " ", "f", "o", "u", "n", "d", ")">>

\* " (не найден)"
RussianNotFound ==
    <<" ", "(", "U+043D", "U+0435", " ", "U+043D", "U+0430", "U+0439",
      "U+0434", "U+0435", "U+043D", ")">>

\* the innermost call is for a name that is no key of the graph
AtAbsentName ==
    /\ pc = "tree"
    /\ stack # <<>>
    /\ stack[Len(stack)].k = 0
    /\ stack[Len(stack)].package \notin DOMAIN dep_graph

\* the call for the absent name returns exactly line: to the caller of
\* generate_ascii_tree for the root, to the rendering of its parent otherwise
AbsentNameYields(line) ==
    IF Len(stack) = 1
    THEN tree' = line /\ pc' = "rendered"
    ELSE /\ Len(stack') = Len(stack) - 1
         /\ stack'[Len(stack')].tree = stack[Len(stack) - 1].tree \o line

RECURSIVE ClaimRender(_, _, _), ClaimBranches(_, _, _, _)
ClaimRender(g, name, prefix) ==
    IF name \notin DOMAIN g THEN name \o RussianNotFound \o <<LF>>
    ELSE name \o <<LF>> \o ClaimBranches(g, g[name], 1, prefix)

ClaimBranches(g, deps, k, prefix) ==
    IF k > Len(deps) THEN <<>>
    ELSE LET last == k = Len(deps)
             mark == IF last THEN <<"U+2514", "U+2500", "U+2500", " ">>
                     ELSE <<"U+251C", "U+2500", "U+2500", " ">>
             more == IF last THEN <<" ", " ", " ", " ">>
                     ELSE <<"U+2502", " ", " ", " ">>
         IN prefix \o mark \o ClaimRender(g, deps[k], prefix \o more)
                \o ClaimBranches(g, deps, k + 1, prefix)

CountOf(text, c) == Cardinality({k \in 1..Len(text) : text[k] = c})

\* {A: [B, C], B: [], C: []}
ExampleGraph ==
    [name \in {PkgA, PkgB, PkgC} |-> IF name = PkgA THEN <<PkgB, PkgC>> ELSE <<>>]

\* "A\n├── B\n└── C\n"
ExampleTree ==
    <<"A", LF, "U+251C", "U+2500", "U+2500", " ", "B", LF,
      "U+2514", "U+2500", "U+2500", " ", "C", LF>>

\* C12: for a root present in the graph the tree is the root's line and, for
\* each dependency in list order, the prefix, the branch mark (the last
\* dependency's differs) and the dependency's rendering under the extended
\* prefix; every line but the root's is one branch line; the example graph
\* renders as the example tree.
C12_TreeShape ==
    (pc = "rendered" /\ package \in DOMAIN dep_graph) =>
        /\ tree = ClaimRender(dep_graph, package, <<>>)
        /\ CountOf(tree, "U+2514") + CountOf(tree, "U+251C") = CountOf(tree, LF) - 1
        /\ dep_graph = ExampleGraph => tree = ExampleTree

\* the example graph has been rendered
C12_Witness ==
    /\ pc = "rendered"
    /\ dep_graph = ExampleGraph
    /\ tree = ExampleTree

\* the names one step from a set of names
Step(g, S) == S \cup {y \in PackageNames : \E x \in S \cap DOMAIN g :
                                              \E k \in 1..Len(g[x]) : g[x][k] = y}

RECURSIVE Closure(_, _)
Closure(g, S) == IF Step(g, S) = S THEN S ELSE Closure(g, Step(g, S))

OnCycle(g, name) ==
    \/ name \in DOMAIN g /\ \E k \in 1..Len(g[name]) : g[name][k] = name
    \/ \E y \in Step(g, {name}) \ {name} : name \in Closure(g, {y})

CycleReachable == \E n \in Closure(dep_graph, {package}) : OnCycle(dep_graph, n)

\* C14: generate_ascii_tree returns if and only if no cycle of the graph is
\* reachable from the root: with none it returns; with one it never
\* returns and the recursion reaches every depth followed, here MaxDepth.
C14_TerminatesIffAcyclic ==
    /\ [](CycleReachable => pc # "rendered")
    /\ (~CycleReachable) ~> (pc = "rendered")
    /\ CycleReachable ~> (Len(stack) = MaxDepth)

\* A lists itself: the calls for A have reached the depth followed
C14_Witness ==
    /\ pc = "tree"
    /\ DOMAIN dep_graph = {PkgA}
    /\ dep_graph[PkgA] = <<PkgA>>
    /\ Len(stack) = MaxDepth
    /\ \A n \in 1..Len(stack) : stack[n].package = PkgA

-----------------------------------------------------------------------------
(* Claim about DependencyVisualizer.run, checked under SpecRun *)

\* the error is one of the two dependency errors
IsDependencyError(e) ==
    e # <<>> /\ e[1] \in {"index not retrievable", "package not found"}

\* initialisation succeeded: the run went past initialize()
Initialised == pc \notin {"run"} /\ error # <<"configuration error">>

\* C15: once the configuration is loaded and valid, a dependency error
\* (index not retrievable, package not found) makes run use the sample data
\* and return True; run returns False only when initialisation failed or
\* an error other than a dependency error occurred.
C15_DependencyErrorRecoverable ==
    /\ (Initialised /\ IsDependencyError(error) /\ pc # "raised")
           => data_source = "sample" /\ run_result # "False"
    /\ (pc = "returned" /\ Initialised /\ IsDependencyError(error))
           => run_result = "True"
    /\ data_source = "sample" => Initialised /\ IsDependencyError(error)
    /\ run_result = "False"
           => \/ error = <<"configuration error">>
              \/ error # <<>> /\ ~IsDependencyError(error)
    /\ pc = "returned" => run_result \in {"True", "False"}

\* test-package is not in the index: the run showed its tree from the sample
\* data and returned True
C15_Witness ==
    /\ pc = "returned"
    /\ error = <<"package not found", TestPackage>>
    /\ config.package_name = TestPackage
    /\ data_source = "sample"
    /\ tree # <<>>
    /\ run_result = "True"

=============================================================================
